---- MODULE Spec2Model ----
(***************************************************************************)
(* A model of pdf_pager.py: the PdfTask pipeline (merge, page numbers,     *)
(* bookmarks, copy to the final path, cleanup) and the __main__ wrapper.   *)
(*                                                                         *)
(* Strings that the program slices, splits, sorts or concatenates are      *)
(* sequences of one-character strings; flags that are only compared for    *)
(* equality are TLA+ strings.  A PDF file is a record                      *)
(*   [pages : sequence of [src, idx, label], outline : sequence of         *)
(*    [title, pagenum, parent]]                                            *)
(* where a page remembers the input file and page index it came from and   *)
(* the label stamped on it, and an outline entry's parent is 0 (None) or   *)
(* the position in the outline of its parent entry.                        *)
(***************************************************************************)
EXTENDS Integers, Sequences, FiniteSets, TLC

(***************************************************************************)
(* Bounds of the model.                                                    *)
(***************************************************************************)
MaxInputs == 2
MaxPages == 2
MaxLabelPages == 6
MaxDay == 2

(***************************************************************************)
(* String helpers.                                                         *)
(***************************************************************************)
None == <<"None">>

S_pdf == <<".", "p", "d", "f">>
S_merged == <<"m", "e", "r", "g", "e", "d">>
S_numbered == <<"n", "u", "m", "b", "e", "r", "e", "d">>
S_bookmarked == <<"b", "o", "o", "k", "m", "a", "r", "k", "e", "d">>
S_Page == <<"P", "a", "g", "e">>
S_of == <<" ", "o", "f", " ">>

Digits == <<"0", "1", "2", "3", "4", "5", "6", "7", "8", "9">>

\* Python's str(int) for a non-negative integer.
RECURSIVE str(_)
str(n) == IF n < 10 THEN <<Digits[n + 1]>>
          ELSE str(n \div 10) \o <<Digits[(n % 10) + 1]>>

\* Python's s[:n] for n >= 0.
SliceTo(s, n) == SubSeq(s, 1, IF n < Len(s) THEN n ELSE Len(s))

\* Python's s[:-n] for n > 0.
SliceToNeg(s, n) == SubSeq(s, 1, IF Len(s) > n THEN Len(s) - n ELSE 0)

\* Python's truth value of a string or None.
Truthy(x) == x # None /\ x # <<>>

\* The characters of the model in code point order.
Alphabet == <<" ", "-", ".", "0", "1", "2", "3", "4", "5", "6", "7", "8", "9",
              "P", "Q", "T", "U", "_", "a", "b", "c", "d", "e", "f", "g", "k",
              "m", "n", "o", "p", "r", "t", "u", "|">>

Ord(c) == CHOOSE i \in 1..Len(Alphabet) : Alphabet[i] = c

\* Python's s < t on strings.
RECURSIVE StrLess(_, _)
StrLess(s, t) ==
    IF t = <<>> THEN FALSE
    ELSE IF s = <<>> THEN TRUE
    ELSE IF Head(s) # Head(t) THEN Ord(Head(s)) < Ord(Head(t))
    ELSE StrLess(Tail(s), Tail(t))

\* Insertion of x after the elements not greater than it (a stable sort step).
RECURSIVE InsertSorted(_, _)
InsertSorted(x, l) ==
    IF l = <<>> THEN <<x>>
    ELSE IF StrLess(x, Head(l)) THEN <<x>> \o l
    ELSE <<Head(l)>> \o InsertSorted(x, Tail(l))

\* Python's sorted(l) on a list of strings.
RECURSIVE sorted(_)
sorted(l) == IF l = <<>> THEN <<>>
             ELSE InsertSorted(l[Len(l)], sorted(SubSeq(l, 1, Len(l) - 1)))

\* Python's val.split('|').
RECURSIVE SplitFrom(_, _, _, _)
SplitFrom(s, i, cur, acc) ==
    IF i > Len(s) THEN Append(acc, cur)
    ELSE IF s[i] = "|" THEN SplitFrom(s, i + 1, <<>>, Append(acc, cur))
    ELSE SplitFrom(s, i + 1, Append(cur, s[i]), acc)

split(val) == SplitFrom(val, 1, <<>>, <<>>)

\* Python's a or b on strings.
PyOr(a, b) == IF Truthy(a) THEN a ELSE b

(***************************************************************************)
(* The state of one run of the program.                                    *)
(***************************************************************************)
VARIABLES
    task,               \* the PdfTask object: its constructor arguments
    fs,                 \* the file system: path -> file
    today,              \* the day the clock shows
    pc,                 \* the position of __main__ / run_tasks
    steps_iter,         \* the list the first loop of run_tasks iterates over
    step,               \* run_tasks' variable step: index in steps_iter, 0 = unbound
    raised,             \* the exception that left run_tasks, if any
    exit_code,          \* the argument of sys.exit, -1 while running
    written,            \* the paths this run has opened for writing or copied to
    log_bookmarks,      \* the list logged as 'Bookmarks: ...'
    log_parent_bookmarks, \* the dict logged as 'Parent bookmarks: ...'
    calls               \* the calls run_tasks has made: step functions, shutil.copy

vars == <<task, fs, today, pc, steps_iter, step, raised, exit_code, written,
          log_bookmarks, log_parent_bookmarks, calls>>

NoException == [type |-> "none", at |-> "none"]

\* A file that was opened with "wb" and never written: not a PDF.
EmptyFile == [pages |-> <<>>, outline |-> <<>>]

\* An input PDF of n pages without outline.
InputFile(path, n) ==
    [pages |-> [i \in 1..n |-> [src |-> path, idx |-> i - 1, label |-> None]],
     outline |-> <<>>]

Readable(path) == path \in DOMAIN fs /\ fs[path] # EmptyFile

RemoveFile(f, path) == [p \in (DOMAIN f) \ {path} |-> f[p]]

(***************************************************************************)
(* PdfTask: names and paths.                                               *)
(***************************************************************************)
iso_date_str == <<"2", "0", "2", "6", "-", "1", "1", "-", "0", Digits[today + 1]>>

get_pdf_name(original_output_path, prefix) ==
    SliceTo(original_output_path, 4) \o <<"_">> \o prefix \o <<"_">>
        \o iso_date_str \o S_pdf

final_output_path ==
    IF task.append_date_flag = "Y"
    THEN SliceToNeg(task.output_path, 4) \o <<"_">> \o iso_date_str \o S_pdf
    ELSE task.output_path

input_paths == [i \in 1..Len(task.inputs) |-> split(task.inputs[i])[1]]

(***************************************************************************)
(* PdfTask.steps.  steps[-1] on the empty list raises IndexError.          *)
(***************************************************************************)
StepsRaises ==
    /\ Len(input_paths) <= 1
    /\ (task.page_numbers_flag = "Y" \/ task.bookmarks_flag = "Y")

MergeStep ==
    LET output_path == get_pdf_name(task.output_path, S_merged)
    IN  [input_path |-> None, output_path |-> output_path,
         function |-> "merge_pdfs", args |-> <<input_paths, output_path>>]

\* NumberStep reading the first input instead of the previous step's output.
NumberStep_FirstInput(before) ==
    LET input_path == input_paths[1]
        output_path == get_pdf_name(task.output_path, S_numbered)
    IN  [input_path |-> input_path, output_path |-> output_path,
         function |-> "add_page_numbers",
         args |-> <<input_path, output_path, task.page_number_mask,
                    task.total_pages_flag, task.bottom_margin>>]

NumberStep(before) ==
    LET input_path == PyOr(before[Len(before)].output_path, input_paths[1])
        output_path == get_pdf_name(task.output_path, S_numbered)
    IN  [input_path |-> input_path, output_path |-> output_path,
         function |-> "add_page_numbers",
         args |-> <<input_path, output_path, task.page_number_mask,
                    task.total_pages_flag, task.bottom_margin>>]

BookmarkStep(before) ==
    LET input_path == PyOr(before[Len(before)].output_path, input_paths[1])
        output_path == get_pdf_name(task.output_path, S_bookmarked)
    IN  [input_path |-> input_path, output_path |-> output_path,
         function |-> "add_bookmarks", args |-> <<input_path, output_path>>]

steps ==
    LET s1 == IF Len(input_paths) > 1 THEN <<MergeStep>> ELSE <<>>
        s2 == IF task.page_numbers_flag = "Y" THEN Append(s1, NumberStep(s1)) ELSE s1
        s3 == IF task.bookmarks_flag = "Y" THEN Append(s2, BookmarkStep(s2)) ELSE s2
    IN  s3

(***************************************************************************)
(* PdfTask.get_page_numbers and PdfTask.bookmarks.                         *)
(***************************************************************************)
\* open(input_path, "rb") fails on a path that is not there.
GetPageNumbersRaises == \E i \in 1..Len(input_paths) : ~Readable(input_paths[i])

RECURSIVE PageNumbersFrom(_, _, _, _)
PageNumbersFrom(paths, i, page_num, page_numbers) ==
    IF i > Len(paths) THEN page_numbers
    ELSE PageNumbersFrom(paths, i + 1, page_num + Len(fs[paths[i]].pages),
                         (paths[i] :> page_num) @@ page_numbers)

get_page_numbers == PageNumbersFrom(input_paths, 1, 0, <<>>)

\* val.split('|')[1] and [2] raise IndexError when the list is shorter.
BookmarksRaises ==
    \E i \in 1..Len(task.inputs) :
        /\ Truthy(split(task.inputs[i])[1])
        /\ Len(split(task.inputs[i])) < 3

RECURSIVE BookmarksFrom(_, _)
BookmarksFrom(i, page_numbers) ==
    IF i > Len(task.inputs) THEN <<>>
    ELSE LET val == split(task.inputs[i])
         IN  IF Truthy(val[1])
             THEN <<[input_path |-> val[1], bookmark_name |-> val[2],
                     parent_bookmark_name |-> val[3],
                     page_number |-> page_numbers[val[1]]]>>
                  \o BookmarksFrom(i + 1, page_numbers)
             ELSE BookmarksFrom(i + 1, page_numbers)

bookmarks == BookmarksFrom(1, get_page_numbers)

(***************************************************************************)
(* The loop of PdfTask.add_bookmarks.  acc is the outline written so far   *)
(* and the dict parent_bookmarks (title -> position of the parent entry).  *)
(***************************************************************************)
addBookmark(outline, title, pagenum, parent) ==
    Append(outline, [title |-> title, pagenum |-> pagenum, parent |-> parent])

\* BookmarkLoopBody without the test that the parent is not yet registered.
BookmarkLoopBody_NoGuard(acc, val, page_numbers) ==
    LET name == val.parent_bookmark_name
    IN  IF Truthy(name)
        THEN LET reg ==
                   [outline |-> addBookmark(acc.outline, name,
                                            page_numbers[val.input_path], 0),
                    parent_bookmarks |->
                        (name :> Len(acc.outline) + 1) @@ acc.parent_bookmarks]
             IN  [outline |-> addBookmark(reg.outline, val.bookmark_name,
                                          val.page_number, reg.parent_bookmarks[name]),
                  parent_bookmarks |-> reg.parent_bookmarks]
        ELSE IF Truthy(val.bookmark_name)
             THEN [outline |-> addBookmark(acc.outline, val.bookmark_name,
                                           val.page_number, 0),
                   parent_bookmarks |-> acc.parent_bookmarks]
             ELSE acc

BookmarkLoopBody(acc, val, page_numbers) ==
    LET name == val.parent_bookmark_name
    IN  IF Truthy(name)
        THEN LET reg ==
                   IF name \notin DOMAIN acc.parent_bookmarks
                   THEN [outline |-> addBookmark(acc.outline, name,
                                                 page_numbers[val.input_path], 0),
                         parent_bookmarks |->
                             (name :> Len(acc.outline) + 1) @@ acc.parent_bookmarks]
                   ELSE acc
             IN  [outline |-> addBookmark(reg.outline, val.bookmark_name,
                                          val.page_number, reg.parent_bookmarks[name]),
                  parent_bookmarks |-> reg.parent_bookmarks]
        ELSE IF Truthy(val.bookmark_name)
             THEN [outline |-> addBookmark(acc.outline, val.bookmark_name,
                                           val.page_number, 0),
                   parent_bookmarks |-> acc.parent_bookmarks]
             ELSE acc

RECURSIVE BookmarkLoop(_, _, _, _)
BookmarkLoop(acc, bms, i, page_numbers) ==
    IF i > Len(bms) THEN acc
    ELSE BookmarkLoop(BookmarkLoopBody(acc, bms[i], page_numbers), bms, i + 1,
                      page_numbers)

(***************************************************************************)
(* The label PdfTask.add_page_numbers stamps on page page_num of page_ct.  *)
(***************************************************************************)
\* Label numbering the pages from 0.
Label_FromZero(page_num, page_ct, mask, total_pages_flag) ==
    LET txt0 == str(page_num)
        txt1 == IF Truthy(mask) THEN mask \o <<" ">> \o txt0 ELSE txt0
    IN  IF total_pages_flag = "Y" THEN txt1 \o S_of \o str(page_ct) ELSE txt1

Label(page_num, page_ct, mask, total_pages_flag) ==
    LET txt0 == str(page_num + 1)
        txt1 == IF Truthy(mask) THEN mask \o <<" ">> \o txt0 ELSE txt0
    IN  IF total_pages_flag = "Y" THEN txt1 \o S_of \o str(page_ct) ELSE txt1

\* The pages PdfFileMerger writes for the inputs visited in the order given.
RECURSIVE MergedPages(_, _)
MergedPages(paths, f) ==
    IF paths = <<>> THEN <<>>
    ELSE f[Head(paths)].pages \o MergedPages(Tail(paths), f)

RECURSIVE MergedOutline(_, _)
MergedOutline(paths, f) ==
    IF paths = <<>> THEN <<>>
    ELSE f[Head(paths)].outline \o MergedOutline(Tail(paths), f)

(***************************************************************************)
(* Actions: run_tasks and the steps it calls, then the rest of __main__.   *)
(***************************************************************************)
Raise(type, at) ==
    /\ raised' = [type |-> type, at |-> at]
    /\ pc' = "except"

\* After a step returned: the loop goes on, or line 71 is next.
AfterStep == IF step + 1 < Len(steps_iter) THEN "loop" ELSE "copy"

\* Lines 68-69: the plan is logged, then evaluated again for the loop.
run_tasks_begin ==
    /\ pc = "run_tasks"
    /\ IF StepsRaises
       THEN /\ Raise("IndexError", "steps")
            /\ UNCHANGED <<steps_iter, step>>
       ELSE /\ steps_iter' = steps
            /\ step' = 0
            /\ pc' = IF steps = <<>> THEN "copy" ELSE "loop"
            /\ UNCHANGED raised
    /\ UNCHANGED <<task, fs, today, exit_code, written, log_bookmarks,
                   log_parent_bookmarks,
                   calls>>

\* Lines 221-231, called from line 70.
merge_pdfs ==
    /\ pc = "loop"
    /\ steps_iter[step + 1].function = "merge_pdfs"
    /\ LET paths == steps_iter[step + 1].args[1]
           output_path == steps_iter[step + 1].args[2]
           opened == (output_path :> EmptyFile) @@ fs
       IN  /\ step' = step + 1
           /\ calls' = Append(calls, [function |-> steps_iter[step + 1].function,
                                      args |-> steps_iter[step + 1].args])
           /\ written' = written \cup {output_path}
           /\ IF \E i \in 1..Len(paths) :
                    paths[i] \notin DOMAIN opened \/ opened[paths[i]] = EmptyFile
              THEN /\ fs' = opened
                   /\ Raise("FileNotFoundError", "merge_pdfs")
              ELSE /\ fs' = (output_path :>
                                [pages |-> MergedPages(sorted(paths), opened),
                                 outline |-> MergedOutline(sorted(paths), opened)])
                            @@ fs
                   /\ pc' = AfterStep
                   /\ UNCHANGED raised
    /\ UNCHANGED <<task, today, steps_iter, exit_code, log_bookmarks,
                   log_parent_bookmarks>>

\* Lines 233-299, called from line 70.
add_page_numbers ==
    /\ pc = "loop"
    /\ steps_iter[step + 1].function = "add_page_numbers"
    /\ LET input_path == steps_iter[step + 1].args[1]
           output_path == steps_iter[step + 1].args[2]
           mask == steps_iter[step + 1].args[3]
           total_pages_flag == steps_iter[step + 1].args[4]
       IN  /\ step' = step + 1
           /\ calls' = Append(calls, [function |-> steps_iter[step + 1].function,
                                      args |-> steps_iter[step + 1].args])
           /\ IF ~Readable(input_path)
              THEN /\ Raise("FileNotFoundError", "add_page_numbers")
                   /\ UNCHANGED <<fs, written>>
              ELSE LET page_ct == Len(fs[input_path].pages)
                       stamped == [n \in 1..page_ct |->
                                      [fs[input_path].pages[n] EXCEPT
                                          !.label = Label(n - 1, page_ct, mask,
                                                          total_pages_flag)]]
                   IN  /\ fs' = (output_path :> [pages |-> stamped, outline |-> <<>>])
                                @@ fs
                       /\ written' = written \cup {output_path}
                       /\ pc' = AfterStep
                       /\ UNCHANGED raised
    /\ UNCHANGED <<task, today, steps_iter, exit_code, log_bookmarks,
                   log_parent_bookmarks>>

\* Lines 180-219, called from line 70.
add_bookmarks ==
    /\ pc = "loop"
    /\ steps_iter[step + 1].function = "add_bookmarks"
    /\ LET input_path == steps_iter[step + 1].args[1]
           output_path == steps_iter[step + 1].args[2]
       IN  /\ step' = step + 1
           /\ calls' = Append(calls, [function |-> steps_iter[step + 1].function,
                                      args |-> steps_iter[step + 1].args])
           /\ IF ~Readable(input_path)
              THEN /\ Raise("FileNotFoundError", "add_bookmarks")
                   /\ UNCHANGED <<fs, written, log_bookmarks, log_parent_bookmarks>>
              ELSE /\ written' = written \cup {output_path}
                   /\ IF GetPageNumbersRaises
                      THEN /\ fs' = (output_path :> EmptyFile) @@ fs
                           /\ Raise("FileNotFoundError", "get_page_numbers")
                           /\ UNCHANGED <<log_bookmarks, log_parent_bookmarks>>
                      ELSE IF BookmarksRaises
                      THEN /\ fs' = (output_path :> EmptyFile) @@ fs
                           /\ Raise("IndexError", "bookmarks")
                           /\ UNCHANGED <<log_bookmarks, log_parent_bookmarks>>
                      ELSE LET done == BookmarkLoop(
                                           [outline |-> fs[input_path].outline,
                                            parent_bookmarks |-> <<>>],
                                           bookmarks, 1, get_page_numbers)
                           IN  /\ log_bookmarks' = bookmarks
                               /\ log_parent_bookmarks' = done.parent_bookmarks
                               /\ fs' = (output_path :>
                                            [pages |-> fs[input_path].pages,
                                             outline |-> done.outline]) @@ fs
                               /\ pc' = AfterStep
                               /\ UNCHANGED raised
    /\ UNCHANGED <<task, today, steps_iter, exit_code>>

\* Line 71: shutil.copy(src=step.output_path, dst=self.final_output_path).
copy_final ==
    /\ pc = "copy"
    /\ IF step = 0
       THEN /\ Raise("UnboundLocalError", "copy")
            /\ UNCHANGED <<fs, written, calls>>
       ELSE LET src == steps_iter[step].output_path
                dst == final_output_path
            IN  /\ calls' = Append(calls, [function |-> "copy", args |-> <<src, dst>>])
                /\ IF src = dst
                   THEN /\ Raise("SameFileError", "copy")
                        /\ UNCHANGED <<fs, written>>
                   ELSE /\ fs' = (dst :> fs[src]) @@ fs
                        /\ written' = written \cup {dst}
                        /\ pc' = "cleanup"
                        /\ UNCHANGED raised
    /\ UNCHANGED <<task, today, steps_iter, step, exit_code, log_bookmarks,
                   log_parent_bookmarks>>

\* os.remove of each step's output in turn; stops at the first that is missing.
RECURSIVE RemoveAll(_, _, _)
RemoveAll(f, l, i) ==
    IF i > Len(l) THEN [fs |-> f, ok |-> TRUE]
    ELSE IF l[i].output_path \notin DOMAIN f THEN [fs |-> f, ok |-> FALSE]
    ELSE RemoveAll(RemoveFile(f, l[i].output_path), l, i + 1)

\* Lines 72-74: the second loop, over a fresh evaluation of self.steps.
cleanup ==
    /\ pc = "cleanup"
    /\ LET r == RemoveAll(fs, steps, 1)
       IN  /\ fs' = r.fs
           /\ IF r.ok
              THEN pc' = "startfile" /\ UNCHANGED raised
              ELSE Raise("FileNotFoundError", "cleanup")
    /\ UNCHANGED <<task, today, steps_iter, step, exit_code, written,
                   log_bookmarks, log_parent_bookmarks,
                   calls>>

\* Lines 322-324: os.startfile(task.final_output_path), then sys.exit(0).
startfile ==
    /\ pc = "startfile"
    /\ IF final_output_path \in DOMAIN fs
       THEN /\ exit_code' = 0
            /\ pc' = "exit"
            /\ UNCHANGED raised
       ELSE /\ Raise("FileNotFoundError", "startfile")
            /\ UNCHANGED exit_code
    /\ UNCHANGED <<task, fs, today, steps_iter, step, written, log_bookmarks,
                   log_parent_bookmarks,
                   calls>>

\* Lines 325-327: except Exception: log the error, sys.exit(1).
except_handler ==
    /\ pc = "except"
    /\ exit_code' = 1
    /\ pc' = "exit"
    /\ UNCHANGED <<task, fs, today, steps_iter, step, raised, written,
                   log_bookmarks, log_parent_bookmarks,
                   calls>>

\* The clock passes midnight while the program runs (iso_date_str, line 44).
Midnight ==
    /\ pc # "exit"
    /\ today < MaxDay
    /\ today' = today + 1
    /\ UNCHANGED <<task, fs, pc, steps_iter, step, raised, exit_code, written,
                   log_bookmarks, log_parent_bookmarks,
                   calls>>

Next ==
    \/ run_tasks_begin
    \/ merge_pdfs
    \/ add_page_numbers
    \/ add_bookmarks
    \/ copy_final
    \/ cleanup
    \/ startfile
    \/ except_handler
    \/ Midnight

(***************************************************************************)
(* Initial states: the arguments of the command line and the input files.  *)
(***************************************************************************)
Raw(path, title, parent) == path \o <<"|">> \o title \o <<"|">> \o parent

ListsOf(S, n) == UNION {[1..k -> S] : k \in 1..n}

PathsOf(inputs) == {split(inputs[i])[1] : i \in 1..Len(inputs)}

\* The file systems in which every path of D is a PDF of 1..n pages.
FilesOn(D, n) == {[p \in D |-> InputFile(p, c[p])] : c \in [D -> 1..n]}

S_output == <<"o", "u", "t", "p", "u", "t">> \o S_pdf
S_outp_merged == <<"o", "u", "t", "p", "_">> \o S_merged \o S_pdf
S_outp_bookmarked_day1 ==
    <<"o", "u", "t", "p", "_">> \o S_bookmarked
        \o <<"_", "2", "0", "2", "6", "-", "1", "1", "-", "0", "1">> \o S_pdf

Tasks(ins, outs, masks, totals, appends, numbers, marks) ==
    [inputs : ins,
     output_path : outs,
     page_number_mask : masks,
     total_pages_flag : totals,
     append_date_flag : appends,
     bottom_margin : {10},
     page_numbers_flag : numbers,
     bookmarks_flag : marks]

\* The state of __main__ before task.run_tasks().
Start ==
    /\ today = 1
    /\ pc = "run_tasks"
    /\ steps_iter = <<>>
    /\ step = 0
    /\ raised = NoException
    /\ exit_code = -1
    /\ written = {}
    /\ log_bookmarks = <<>>
    /\ log_parent_bookmarks = <<>>
    /\ calls = <<>>

\* The pipeline: few input strings, every flag, several output paths, input
\* files that may be missing.
PipelineInputs ==
    {Raw(<<"b">>, <<"T">>, <<"P">>), Raw(<<"a">>, <<>>, <<>>), <<"a">>}

PipelineFiles ==
    UNION {FilesOn(D, MaxPages) : D \in (SUBSET {<<"a">>, <<"b">>}) \ {{}}}

Init ==
    /\ task \in Tasks(ListsOf(PipelineInputs, MaxInputs),
                      {S_output, S_outp_merged, S_outp_bookmarked_day1},
                      {S_Page}, {"Y"}, {"Y", "N"}, {"Y", "N"}, {"Y", "N"})
    /\ fs \in PipelineFiles
    /\ Start

Spec == Init /\ [][Next]_vars

\* The bookmarks: input strings with and without title and parent over three
\* paths, and strings with fewer than two separators; all input files
\* present, every flag on, a run within one day.
BookmarkInputs ==
    {Raw(path, title, parent) :
        path \in {<<"a">>, <<"b">>},
        title \in {<<>>, <<"T">>},
        parent \in {<<>>, <<"P">>, <<"Q">>}}
    \cup {Raw(<<"c">>, <<"U">>, <<"P">>), Raw(<<"c">>, <<>>, <<"Q">>)}
    \cup {<<"a">>, <<"b", "|", "T">>}

InitBookmarks ==
    /\ task \in Tasks(ListsOf(BookmarkInputs, MaxInputs), {S_output}, {S_Page},
                      {"Y"}, {"Y"}, {"Y"}, {"Y"})
    /\ fs \in FilesOn(PathsOf(task.inputs), MaxPages)
    /\ Start

NextSameDay ==
    \/ run_tasks_begin
    \/ merge_pdfs
    \/ add_page_numbers
    \/ add_bookmarks
    \/ copy_final
    \/ cleanup
    \/ startfile
    \/ except_handler

SpecBookmarks == InitBookmarks /\ [][NextSameDay]_vars

\* The page labels: documents of up to 2 * MaxLabelPages pages, every kind of
\* mask and total-pages flag, a run within one day.
InitLabel ==
    /\ task \in Tasks(ListsOf({Raw(<<"a">>, <<>>, <<>>), Raw(<<"b">>, <<>>, <<>>)},
                              MaxInputs),
                      {S_output}, {None, <<>>, S_Page, <<"p", ".">>},
                      {"Y", "N", "y"}, {"Y"}, {"Y"}, {"Y"})
    /\ fs \in FilesOn(PathsOf(task.inputs), MaxLabelPages)
    /\ Start

SpecLabel == InitLabel /\ [][NextSameDay]_vars

(***************************************************************************)
(* Claims about the pipeline, checked under Spec.                          *)
(***************************************************************************)
StepFunctions == {"merge_pdfs", "add_page_numbers", "add_bookmarks"}

\* The enabled steps of a run with two or more inputs, in pipeline order.
ExpectedOrder ==
    <<"merge_pdfs">>
        \o (IF task.page_numbers_flag = "Y" THEN <<"add_page_numbers">> ELSE <<>>)
        \o (IF task.bookmarks_flag = "Y" THEN <<"add_bookmarks">> ELSE <<>>)

DistinctPaths ==
    \A i, j \in 1..Len(input_paths) : input_paths[i] = input_paths[j] => i = j

\* The 0-based index of the first page of the document that came from path.
FirstPageOf(pages, path) ==
    (CHOOSE i \in 1..Len(pages) :
        /\ pages[i].src = path
        /\ \A j \in 1..(i - 1) : pages[j].src # path) - 1

\* C1: with two or more inputs of pairwise distinct paths, once merge_pdfs has
\* written the merged document, the offset get_page_numbers gives an input is
\* the 0-based index at which that input's first page lies in the merged
\* document.
C1_OffsetsMatchMerge ==
    (/\ Len(task.inputs) >= 2
     /\ DistinctPaths
     /\ pc \in {"loop", "copy"}
     /\ step = 1
     /\ steps_iter[1].function = "merge_pdfs")
    => \A k \in 1..Len(input_paths) :
          get_page_numbers[input_paths[k]]
              = FirstPageOf(fs[steps_iter[1].output_path].pages, input_paths[k])

\* C6: with exactly one input (a readable file), whatever the flags, run_tasks
\* raises nothing before finalization, calls no merge and writes no merge
\* artifact, and the first step called reads the sole input.
C6_SingleInputRuns ==
    (Len(task.inputs) = 1 /\ Readable(input_paths[1]))
    => /\ raised.at \notin {"steps", "copy"}
       /\ \A i \in 1..Len(calls) : calls[i].function # "merge_pdfs"
       /\ (calls # <<>> /\ calls[1].function \in StepFunctions)
              => calls[1].args[1] = input_paths[1]

\* C7: with two or more inputs, whatever the flags, the steps run_tasks calls
\* are the enabled ones, once each, in the order merge, numbering,
\* bookmarking; each step after the merge reads the output path of the step
\* called just before it; shutil.copy is called only after the last enabled
\* step, with that step's output path as source, and leaves that step's
\* output at the destination.
C7_StepOrder ==
    Len(task.inputs) >= 2
    => /\ \A i \in 1..Len(calls) :
            IF calls[i].function = "copy"
            THEN /\ i = Len(ExpectedOrder) + 1
                 /\ calls[i].args[1] = calls[i - 1].args[2]
            ELSE /\ i <= Len(ExpectedOrder)
                 /\ calls[i].function = ExpectedOrder[i]
                 /\ i > 1 => calls[i].args[1] = calls[i - 1].args[2]
       /\ pc = "cleanup"
            => /\ Len(calls) = Len(ExpectedOrder) + 1
               /\ fs[calls[Len(calls)].args[2]] = fs[calls[Len(calls) - 1].args[2]]

\* C7 witness: a run with two inputs and both flags on has called merge,
\* numbering, bookmarking and the copy.
C7_Witness ==
    /\ Len(task.inputs) >= 2
    /\ pc = "cleanup"
    /\ Len(calls) = 4
    /\ calls[2].function = "add_page_numbers"
    /\ calls[3].function = "add_bookmarks"

\* C8: when run_tasks has completed a run of at least one step, the path the
\* copy wrote as final output still exists and holds the last step's pages,
\* and no intermediate path of the steps is left.
C8_FinalSurvivesCleanup ==
    (pc = "startfile" /\ steps_iter # <<>>)
    => LET dst == calls[Len(calls)].args[2]
       IN  /\ dst \in DOMAIN fs
           /\ \A i \in 1..Len(steps_iter) :
                 /\ steps_iter[i].output_path # dst
                 /\ steps_iter[i].output_path \notin DOMAIN fs

\* C9: when a pipeline step has failed, the program exits with code 1 and
\* the final output path is none of the paths this run has written.
C9_FailedStepLeavesNoFinal ==
    raised.at \in {"merge_pdfs", "add_page_numbers", "add_bookmarks",
                   "get_page_numbers", "bookmarks"}
    => /\ pc = "exit" => exit_code = 1
       /\ final_output_path \notin written

(***************************************************************************)
(* Claims about offsets and bookmarks, checked under SpecBookmarks.        *)
(***************************************************************************)
\* add_bookmarks has just returned: its output file is written.
BookmarksDone ==
    /\ pc = "copy"
    /\ calls # <<>>
    /\ calls[Len(calls)].function = "add_bookmarks"

Outline == fs[calls[Len(calls)].args[2]].outline

\* The page counts of the records before record k, added up.
RECURSIVE PagesBefore(_)
PagesBefore(k) ==
    IF k <= 1 THEN 0
    ELSE PagesBefore(k - 1) + Len(fs[input_paths[k - 1]].pages)

TitleOf(k) == split(task.inputs[k])[2]
ParentOf(k) == split(task.inputs[k])[3]

\* The positions in the outline of the entries that act as parents.
ParentEntries ==
    {i \in 1..Len(Outline) :
        \/ \E j \in 1..Len(Outline) : Outline[j].parent = i
        \/ \E t \in DOMAIN log_parent_bookmarks : log_parent_bookmarks[t] = i}

ChildEntries == (1..Len(Outline)) \ ParentEntries

\* C2: the offset attached to record k is the sum of the page counts of the
\* records before it (0 for the first), also when a path occurs twice.
C2_OffsetIsPrefixSum ==
    BookmarksDone
    => /\ Len(log_bookmarks) = Len(task.inputs)
       /\ \A k \in 1..Len(log_bookmarks) :
             log_bookmarks[k].page_number = PagesBefore(k)

\* C3: an input string path, path|title or path|title|parent with a non-empty
\* path never makes the bookmarks property raise for want of a separator.
WellFormed(val) == Len(split(val)) \in 1..3 /\ split(val)[1] # <<>>

C3_MissingFieldsDefault ==
    (\A i \in 1..Len(task.inputs) : WellFormed(task.inputs[i]))
    => raised # [type |-> "IndexError", at |-> "bookmarks"]

\* C4: the child entries add_bookmarks writes are as many as the records with
\* a non-empty bookmarkTitle, and none has an empty title.
C4_ChildPerTitledRecord ==
    BookmarksDone
    => /\ Cardinality(ChildEntries)
              = Cardinality({k \in 1..Len(task.inputs) : TitleOf(k) # <<>>})
       /\ \A i \in ChildEntries : Outline[i].title # <<>>

\* The first record, in argument order, that names parent title t.
FirstNaming(t) ==
    CHOOSE k \in 1..Len(task.inputs) :
        /\ ParentOf(k) = t
        /\ \A j \in 1..(k - 1) : ParentOf(j) # t

NamedParents == {ParentOf(k) : k \in 1..Len(task.inputs)} \ {<<>>}

\* C5: with pairwise distinct paths, add_bookmarks writes exactly one
\* top-level parent entry per distinct non-empty parentTitle, whose page is
\* the sum of the page counts before the first record naming that title,
\* whether or not that record has a bookmarkTitle; every entry written for a
\* record naming the title hangs under that one parent.
C5_OneParentAtFirstOffset ==
    (BookmarksDone /\ DistinctPaths)
    => /\ Cardinality(ParentEntries) = Cardinality(NamedParents)
       /\ DOMAIN log_parent_bookmarks = NamedParents
       /\ \A t \in NamedParents :
             LET e == Outline[log_parent_bookmarks[t]]
             IN  /\ e.title = t
                 /\ e.parent = 0
                 /\ e.pagenum = PagesBefore(FirstNaming(t))
       /\ \A i \in 1..Len(Outline) :
             Outline[i].parent # 0
                 => Outline[i].parent \in ParentEntries

\* C5 witness: two records name the same parent, the first without a title
\* of its own, and the second starts on a later page.
C5_Witness ==
    /\ BookmarksDone
    /\ DistinctPaths
    /\ Len(task.inputs) >= 2
    /\ ParentOf(1) = <<"P">>
    /\ TitleOf(1) = <<>>
    /\ ParentOf(2) = <<"P">>
    /\ PagesBefore(2) > 0
    /\ Outline[log_parent_bookmarks[<<"P">>]].pagenum = 0

(***************************************************************************)
(* Claims about page labels, checked under SpecLabel.                      *)
(***************************************************************************)
\* add_page_numbers has just returned: its output file is written.
NumberingDone ==
    /\ pc \in {"loop", "copy"}
    /\ calls # <<>>
    /\ calls[Len(calls)].function = "add_page_numbers"

NumberedPages == fs[calls[Len(calls)].args[2]].pages

DigitValue(c) == CHOOSE d \in 0..9 : Digits[d + 1] = c

RECURSIVE DecimalValue(_)
DecimalValue(s) ==
    IF s = <<>> THEN 0
    ELSE 10 * DecimalValue(SubSeq(s, 1, Len(s) - 1)) + DigitValue(s[Len(s)])

\* s is the decimal numeral of v: digits only, no leading zero.
IsNumeral(s, v) ==
    /\ s # <<>>
    /\ \A i \in 1..Len(s) : \E d \in 1..10 : s[i] = Digits[d]
    /\ Len(s) > 1 => s[1] # "0"
    /\ DecimalValue(s) = v

\* label reads: the mask and a space if there is a mask, the numeral of
\* number, and " of " and the numeral of total if the flag is 'Y'.
ReadsAs(label, mask, number, total, flag) ==
    LET pre == IF mask # None /\ mask # <<>> THEN mask \o <<" ">> ELSE <<>>
        rest == SubSeq(label, Len(pre) + 1, Len(label))
    IN  /\ Len(label) >= Len(pre)
        /\ SubSeq(label, 1, Len(pre)) = pre
        /\ IF flag = "Y"
           THEN \E k \in 1..Len(rest) :
                   /\ IsNumeral(SubSeq(rest, 1, k), number)
                   /\ SubSeq(rest, k + 1, k + 4) = <<" ", "o", "f", " ">>
                   /\ IsNumeral(SubSeq(rest, k + 5, Len(rest)), total)
           ELSE IsNumeral(rest, number)

\* C10: page p (0-based) of the N pages add_page_numbers writes carries the
\* mask and a space when the mask is non-empty, then p+1 in decimal, then
\* " of N" when the flag is 'Y' and nothing otherwise: "Page 3 of 7" for
\* mask "Page" with the flag on, "1" for no mask with the flag off.
C10_LabelText ==
    NumberingDone
    => LET N == Len(NumberedPages)
           mask == task.page_number_mask
           flag == task.total_pages_flag
       IN  /\ \A n \in 1..N : ReadsAs(NumberedPages[n].label, mask, n, N, flag)
           /\ (mask = <<"P", "a", "g", "e">> /\ flag = "Y" /\ N = 7)
                 => NumberedPages[3].label
                        = <<"P", "a", "g", "e", " ", "3", " ", "o", "f", " ", "7">>
           /\ (mask = <<>> /\ flag = "N") => NumberedPages[1].label = <<"1">>

\* C10 witness: a document of ten or more pages has been numbered with a mask
\* and the total.
C10_Witness ==
    /\ NumberingDone
    /\ Len(NumberedPages) >= 10
    /\ task.page_number_mask = <<"P", "a", "g", "e">>
    /\ task.total_pages_flag = "Y"
    /\ NumberedPages[10].label
           = <<"P", "a", "g", "e", " ", "1", "0", " ", "o", "f", " ">>
                 \o str(Len(NumberedPages))

====
